---- MODULE Spec2Model ----
(***************************************************************************)
(* Model of the dashboard script src/main.py: the filename resolver, the   *)
(* two memoized loaders, the fail-stop check, and the derivations made on  *)
(* the unified tables (percent change, growth rate, grouped summary).      *)
(*                                                                         *)
(* Strings are sequences of Unicode code points.  Numbers read from the    *)
(* data files are integers; a quotient is kept as the pair <<num, den>>.   *)
(***************************************************************************)
EXTENDS Integers, Sequences, FiniteSets, TLC

VARIABLES
  directory,     \* DATA_DIR in scan order: <<[name, is_file, csv, sheets], ...>>
  env_cache,     \* st.cache_data entry of load_environment_data
  growth_cache,  \* st.cache_data entry of load_growth_data
  pc,            \* position of the running script
  renders,       \* script runs started in this process
  env_data,      \* module-level env_data of the current run
  growth_data,   \* module-level growth_data of the current run
  page,          \* elements the current run has put on the page
  tables,        \* env_all, growth_all, summary of the current run
  io,            \* directory scans and file reads made by each loader
  calls,         \* invocations of each loader, and what the first one returned
  fs_changes,    \* files added to DATA_DIR while the process runs
  target,        \* resolver on its own: the name asked for
  found          \* resolver on its own: the result

vars == <<directory, env_cache, growth_cache, pc, renders, env_data, growth_data,
          page, tables, io, calls, fs_changes, target, found>>

procvars == <<env_cache, growth_cache, pc, renders, env_data, growth_data,
              page, tables, io, calls, fs_changes>>

(***************************************************************************)
(* unicodedata.normalize on the Hangul block (the script the school names  *)
(* are written in) and on characters without a decomposition.              *)
(***************************************************************************)
SBase == 44032
LBase == 4352
VBase == 4449
TBase == 4519
LCount == 19
VCount == 21
TCount == 28
NCount == VCount * TCount
SCount == LCount * NCount

IsSyllable(c) == SBase <= c /\ c < SBase + SCount

\* canonical decomposition of one code point
Decompose(c) ==
  IF IsSyllable(c)
  THEN LET SIndex == c - SBase
           L == LBase + (SIndex \div NCount)
           V == VBase + ((SIndex % NCount) \div TCount)
           T == TBase + (SIndex % TCount)
       IN IF T = TBase THEN <<L, V>> ELSE <<L, V, T>>
  ELSE <<c>>

RECURSIVE NFD(_)
NFD(s) == IF s = <<>> THEN <<>> ELSE Decompose(Head(s)) \o NFD(Tail(s))

\* canonical composition of decomposed data, scanning from position i
RECURSIVE ComposeFrom(_, _)
ComposeFrom(d, i) ==
  IF i > Len(d) THEN <<>>
  ELSE IF /\ LBase <= d[i] /\ d[i] < LBase + LCount
          /\ i + 1 <= Len(d)
          /\ VBase <= d[i + 1] /\ d[i + 1] < VBase + VCount
       THEN LET code == SBase + ((d[i] - LBase) * VCount + (d[i + 1] - VBase)) * TCount
            IN IF /\ i + 2 <= Len(d)
                  /\ TBase < d[i + 2] /\ d[i + 2] < TBase + TCount
               THEN <<code + (d[i + 2] - TBase)>> \o ComposeFrom(d, i + 3)
               ELSE <<code>> \o ComposeFrom(d, i + 2)
       ELSE <<d[i]>> \o ComposeFrom(d, i + 1)

NFC(s) == ComposeFrom(NFD(s), 1)

(***************************************************************************)
(* Catalog resolver                                                        *)
(***************************************************************************)
normalize_name(name) == {NFC(name), NFD(name)}

\* the loop of find_file_by_name from entry i on; 0 stands for None
RECURSIVE FindFrom(_, _, _)
FindFrom(dir, target_norm, i) ==
  IF i > Len(dir) THEN 0
  ELSE IF /\ dir[i].is_file
          /\ \/ NFC(dir[i].name) \in target_norm
             \/ NFD(dir[i].name) \in target_norm
       THEN i
       ELSE FindFrom(dir, target_norm, i + 1)

\* the same loop comparing the stored name as it is
RECURSIVE FindRawFrom(_, _, _)
FindRawFrom(dir, target_name, i) ==
  IF i > Len(dir) THEN 0
  ELSE IF dir[i].is_file /\ dir[i].name = target_name
       THEN i
       ELSE FindRawFrom(dir, target_name, i + 1)

find_file_by_name_raw(dir, target_name) == FindRawFrom(dir, target_name, 1)

find_file_by_name(dir, target_name) == FindFrom(dir, normalize_name(target_name), 1)

(***************************************************************************)
(* Values of the script                                                    *)
(***************************************************************************)
\* a loader result not yet assigned / None / a dict as <<[key, df], ...>>
Unset == [set |-> FALSE, isNone |-> FALSE, data |-> <<>>]
None == [set |-> TRUE, isNone |-> TRUE, data |-> <<>>]
Mapping(d) == [set |-> TRUE, isNone |-> FALSE, data |-> d]

NoEntry == [stored |-> FALSE, value |-> Unset, messages |-> <<>>]
NoTables == [built |-> FALSE, env_all |-> <<>>, growth_all |-> <<>>, summary |-> <<>>]
NoIo == [env_scans |-> 0, env_reads |-> 0, growth_scans |-> 0, growth_reads |-> 0]
NoCalls == [env |-> 0, growth |-> 0, first_env |-> Unset, first_growth |-> Unset]

(***************************************************************************)
(* Configuration and file names                                            *)
(***************************************************************************)
Songdo == <<49569, 46020, 44256>>
Haneul == <<54616, 45720, 44256>>
Ara == <<50500, 46972, 44256>>
Dongsan == <<46041, 49328, 44256>>

\* EC_MAP in insertion order
EC_MAP ==
  << [school |-> Songdo, ec |-> 1],
     [school |-> Haneul, ec |-> 2],
     [school |-> Ara, ec |-> 4],
     [school |-> Dongsan, ec |-> 8] >>

Schools == {EC_MAP[k].school : k \in 1..Len(EC_MAP)}

\* "_환경데이터.csv"
EnvSuffix == <<95, 54872, 44221, 45936, 51060, 53552, 46, 99, 115, 118>>

\* f"{school}_환경데이터.csv"
EnvFileName(school) == school \o EnvSuffix

\* ".xlsx"
XlsxSuffix == <<46, 120, 108, 115, 120>>

\* an EC value: a number, or None
EcValue(v) == [isNull |-> FALSE, v |-> v]
EcNone == [isNull |-> TRUE, v |-> 0]

\* EC_MAP.get(sheet, None): the key is compared as it is written
EC_MAP_get(sheet) ==
  IF \E k \in 1..Len(EC_MAP) : EC_MAP[k].school = sheet
  THEN EcValue(EC_MAP[CHOOSE k \in 1..Len(EC_MAP) : EC_MAP[k].school = sheet].ec)
  ELSE EcNone

\* pathlib's suffix: from the last dot on, unless the dot opens or ends the name
RECURSIVE RFindDot(_, _)
RFindDot(name, i) ==
  IF i = 0 THEN 0 ELSE IF name[i] = 46 THEN i ELSE RFindDot(name, i - 1)

Suffix(name) ==
  LET i == RFindDot(name, Len(name))
  IN IF 1 < i /\ i < Len(name) THEN SubSeq(name, i, Len(name)) ELSE <<>>

\* an element put on the page
Elem(kind, arg) == [kind |-> kind, arg |-> arg]

(***************************************************************************)
(* load_environment_data, the function body                                *)
(***************************************************************************)
\* df["학교"] = school
TagSchool(rows, school) ==
  [i \in 1..Len(rows) |->
     [time |-> rows[i].time, ph |-> rows[i].ph, ec |-> rows[i].ec,
      temperature |-> rows[i].temperature, school |-> school]]

\* the loop over EC_MAP.keys() from the k-th school on
RECURSIVE EnvLoop(_, _, _)
EnvLoop(dir, k, acc) ==
  IF k > Len(EC_MAP)
  THEN [raised |-> FALSE, value |-> Mapping(acc.data), messages |-> <<>>,
        scans |-> acc.scans, reads |-> acc.reads]
  ELSE LET school == EC_MAP[k].school
           file_path == find_file_by_name(dir, EnvFileName(school))
       IN IF file_path = 0
          THEN [raised |-> FALSE, value |-> None,
                messages |-> <<Elem("error_env", school)>>,
                scans |-> acc.scans + 1, reads |-> acc.reads]
          ELSE EnvLoop(dir, k + 1,
                       [data |-> Append(acc.data,
                                        [key |-> school,
                                         df |-> TagSchool(dir[file_path].csv, school)]),
                        scans |-> acc.scans + 1, reads |-> acc.reads + 1])

\* the same loop going on to the next school when a file is missing
RECURSIVE EnvLoopSkip(_, _, _)
EnvLoopSkip(dir, k, acc) ==
  IF k > Len(EC_MAP)
  THEN [raised |-> FALSE, value |-> Mapping(acc.data), messages |-> acc.messages,
        scans |-> acc.scans, reads |-> acc.reads]
  ELSE LET school == EC_MAP[k].school
           file_path == find_file_by_name(dir, EnvFileName(school))
       IN IF file_path = 0
          THEN EnvLoopSkip(dir, k + 1,
                           [data |-> acc.data,
                            messages |-> Append(acc.messages, Elem("error_env", school)),
                            scans |-> acc.scans + 1, reads |-> acc.reads])
          ELSE EnvLoopSkip(dir, k + 1,
                           [data |-> Append(acc.data,
                                            [key |-> school,
                                             df |-> TagSchool(dir[file_path].csv, school)]),
                            messages |-> acc.messages,
                            scans |-> acc.scans + 1, reads |-> acc.reads + 1])

load_environment_data_partial(dir) ==
  EnvLoopSkip(dir, 1, [data |-> <<>>, messages |-> <<>>, scans |-> 0, reads |-> 0])

load_environment_data(dir) ==
  EnvLoop(dir, 1, [data |-> <<>>, scans |-> 0, reads |-> 0])

(***************************************************************************)
(* load_growth_data, the function body                                     *)
(***************************************************************************)
\* the scan for the workbook: the first entry with the suffix, 0 for None
RECURSIVE XlsxFrom(_, _)
XlsxFrom(dir, i) ==
  IF i > Len(dir) THEN 0
  ELSE IF Suffix(dir[i].name) = XlsxSuffix THEN i
  ELSE XlsxFrom(dir, i + 1)

\* the first regular file with the suffix, 0 when the directory holds none
RECURSIVE XlsxFileFrom(_, _)
XlsxFileFrom(dir, i) ==
  IF i > Len(dir) THEN 0
  ELSE IF dir[i].is_file /\ Suffix(dir[i].name) = XlsxSuffix THEN i
  ELSE XlsxFileFrom(dir, i + 1)

find_xlsx_files_only(dir) == XlsxFileFrom(dir, 1)

find_xlsx(dir) == XlsxFrom(dir, 1)

\* df["학교"] = sheet; df["EC"] = EC_MAP.get(sheet, None)
TagSheet(rows, sheet) ==
  [i \in 1..Len(rows) |->
     [top |-> rows[i].top, root |-> rows[i].root,
      school |-> sheet, EC |-> EC_MAP_get(sheet)]]

\* the loop over xls.sheet_names
ReadSheets(sheets) ==
  [k \in 1..Len(sheets) |->
     [key |-> sheets[k].sheet, df |-> TagSheet(sheets[k].rows, sheets[k].sheet)]]

\* the same function looking the sheet up with EC_MAP[sheet], which raises on
\* a sheet that is no key
load_growth_data_strict(dir) ==
  LET xlsx_path == find_xlsx(dir)
  IN IF xlsx_path = 0
     THEN [raised |-> FALSE, value |-> None,
           messages |-> <<Elem("error_growth", <<>>)>>,
           scans |-> 1, reads |-> 0]
     ELSE IF \/ ~dir[xlsx_path].is_file
             \/ \E k \in 1..Len(dir[xlsx_path].sheets) :
                  dir[xlsx_path].sheets[k].sheet \notin Schools
          THEN [raised |-> TRUE, value |-> Unset, messages |-> <<>>,
                scans |-> 1, reads |-> 1]
          ELSE [raised |-> FALSE,
                value |-> Mapping(ReadSheets(dir[xlsx_path].sheets)),
                messages |-> <<>>, scans |-> 1, reads |-> 1]

load_growth_data(dir) ==
  LET xlsx_path == find_xlsx(dir)
  IN IF xlsx_path = 0
     THEN [raised |-> FALSE, value |-> None,
           messages |-> <<Elem("error_growth", <<>>)>>,
           scans |-> 1, reads |-> 0]
     ELSE IF ~dir[xlsx_path].is_file
          \* pd.ExcelFile opens the path: a directory cannot be opened
          THEN [raised |-> TRUE, value |-> Unset, messages |-> <<>>,
                scans |-> 1, reads |-> 1]
          ELSE [raised |-> FALSE,
                value |-> Mapping(ReadSheets(dir[xlsx_path].sheets)),
                messages |-> <<>>, scans |-> 1, reads |-> 1]

(***************************************************************************)
(* st.cache_data: a returned value is stored with the elements the call    *)
(* put on the page, and replayed; a call that raises stores nothing        *)
(***************************************************************************)
\* a cache that keeps no None
cache_data_no_none(cache, out) ==
  IF cache.stored
  THEN [out |-> [raised |-> FALSE, value |-> cache.value, messages |-> cache.messages,
                 scans |-> 0, reads |-> 0],
        cache |-> cache]
  ELSE [out |-> out,
        cache |-> IF out.raised \/ out.value.isNone THEN cache
                  ELSE [stored |-> TRUE, value |-> out.value, messages |-> out.messages]]

cache_data(cache, out) ==
  IF cache.stored
  THEN [out |-> [raised |-> FALSE, value |-> cache.value, messages |-> cache.messages,
                 scans |-> 0, reads |-> 0],
        cache |-> cache]
  ELSE [out |-> out,
        cache |-> IF out.raised THEN cache
                  ELSE [stored |-> TRUE, value |-> out.value, messages |-> out.messages]]

(***************************************************************************)
(* The unified tables and what is derived from them                        *)
(***************************************************************************)
\* "전체"
All == <<51204, 52404>>

\* the values of the school selector
SchoolOptions == {All} \cup Schools

\* a quotient num/den, or a missing value
NullFrac == [null |-> TRUE, num |-> 0, den |-> 1]
Frac(n, d) == [null |-> FALSE, num |-> n, den |-> d]

\* equality of two table cells as numbers
SameNumber(a, b) ==
  IF a.null \/ b.null THEN a.null /\ b.null
  ELSE a.num * b.den = b.num * a.den

\* pd.concat(d.values(), ignore_index=True)
RECURSIVE Concat(_)
Concat(data) ==
  IF data = <<>> THEN <<>> ELSE Head(data).df \o Concat(Tail(data))

\* table[table["학교"] == school_option], applied unless "전체" is selected
FilterSchool(rows, school_option) ==
  IF school_option # All
  THEN SelectSeq(rows, LAMBDA r : r.school = school_option)
  ELSE rows

\* a quotient less one
MinusOne(f) == Frac(f.num - f.den, f.den)

\* Series.pct_change: data / data.shift(1) - 1, nothing before the first value
PctChange(vals) ==
  [j \in 1..Len(vals) |->
     IF j = 1 THEN NullFrac
     ELSE MinusOne(Frac(vals[j], vals[j - 1]))]

\* the rows of one group, as positions of the table
Positions(keys, k) ==
  SelectSeq([i \in 1..Len(keys) |-> i], LAMBDA i : keys[i] = k)

\* pct_change of the whole column, the groups not told apart
ungrouped_pct_change(keys, vals) == PctChange(vals)

\* groupby("학교")[col].pct_change(): computed within each group and put
\* back at the rows' own positions
grouped_pct_change(keys, vals) ==
  [i \in 1..Len(keys) |->
     LET idx == Positions(keys, keys[i])
         pos == CHOOSE j \in 1..Len(idx) : idx[j] = i
     IN PctChange([j \in 1..Len(idx) |-> vals[idx[j]]])[pos]]

\* lines 132-133
DeriveEnv(rows) ==
  LET keys == [i \in 1..Len(rows) |-> rows[i].school]
      ph == grouped_pct_change(keys, [i \in 1..Len(rows) |-> rows[i].ph])
      ec == grouped_pct_change(keys, [i \in 1..Len(rows) |-> rows[i].ec])
  IN [i \in 1..Len(rows) |->
        [time |-> rows[i].time, ph |-> rows[i].ph, ec |-> rows[i].ec,
         temperature |-> rows[i].temperature, school |-> rows[i].school,
         ph_change |-> ph[i], ec_change |-> ec[i]]]

\* (지상부 길이 + 지하부길이) / 2
growth_rate(top, root) == Frac(top + root, 2)

\* lines 135-137
DeriveGrowth(rows) ==
  [i \in 1..Len(rows) |->
     [top |-> rows[i].top, root |-> rows[i].root, school |-> rows[i].school,
      EC |-> rows[i].EC, rate |-> growth_rate(rows[i].top, rows[i].root)]]

\* order of Python strings: by code point
RECURSIVE LexLess(_, _)
LexLess(a, b) ==
  IF b = <<>> THEN FALSE
  ELSE IF a = <<>> THEN TRUE
  ELSE IF Head(a) # Head(b) THEN Head(a) < Head(b)
  ELSE LexLess(Tail(a), Tail(b))

KeyLess(a, b) ==
  LexLess(a.school, b.school) \/ (a.school = b.school /\ a.EC < b.EC)

\* the group keys in sorted order
RECURSIVE SortedKeys(_)
SortedKeys(S) ==
  IF S = {} THEN <<>>
  ELSE LET m == CHOOSE k \in S : \A o \in S \ {k} : KeyLess(k, o)
       IN <<m>> \o SortedKeys(S \ {m})

RECURSIVE FracSum(_)
FracSum(fs) ==
  IF fs = <<>> THEN Frac(0, 1)
  ELSE LET h == Head(fs)
           t == FracSum(Tail(fs))
       IN Frac(h.num * t.den + t.num * h.den, h.den * t.den)

\* Series.mean of a group that has rows
Mean(fs) == LET t == FracSum(fs) IN Frac(t.num, t.den * Len(fs))

\* groupby(["학교", "EC"])["생장률"].mean().reset_index(): a row whose key
\* holds a missing value belongs to no group
Summary(rows) ==
  LET keyed == SelectSeq(rows, LAMBDA r : ~r.EC.isNull)
      keys == SortedKeys({[school |-> keyed[i].school, EC |-> keyed[i].EC.v] :
                          i \in 1..Len(keyed)})
  IN [k \in 1..Len(keys) |->
        LET grp == SelectSeq(keyed, LAMBDA r : r.school = keys[k].school
                                                /\ r.EC.v = keys[k].EC)
        IN [school |-> keys[k].school, EC |-> EcValue(keys[k].EC),
            rate |-> Mean([j \in 1..Len(grp) |-> grp[j].rate])]]

\* lines 109-137 and 203-208: the tables of one run
BuildTables(env, growth, school_option) ==
  LET env_all == DeriveEnv(FilterSchool(Concat(env.data), school_option))
      growth_all == DeriveGrowth(FilterSchool(Concat(growth.data), school_option))
  IN [built |-> TRUE, env_all |-> env_all, growth_all |-> growth_all,
      summary |-> Summary(growth_all)]

\* lines 115-242: what a run that was not stopped puts on the page
Dashboard(school_option) ==
  << Elem("title", <<>>), Elem("selectbox", school_option),
     Elem("chart_ec_ph", <<>>), Elem("chart_photoperiod", <<>>),
     Elem("chart_growth", <<>>), Elem("download", <<>>) >>

(***************************************************************************)
(* The resolver on its own: every directory of at most MaxDirLen entries   *)
(* named from NamePool, every target of NamePool.                          *)
(***************************************************************************)
MaxDirLen == 2

NamePool ==
  { <<44032>>,              \* GA, composed
    <<4352, 4449>>,         \* GA, decomposed
    <<44033>>,              \* GAG, composed
    <<4352, 4449, 4520>>,   \* GAG, decomposed
    <<44032, 4520>>,        \* GAG, syllable GA followed by a trailing jamo
    <<97>> }                \* a

ResolverEntries == [name : NamePool, is_file : BOOLEAN]

ResolverDirs == UNION {[1..n -> ResolverEntries] : n \in 0..MaxDirLen}

InitResolver ==
  /\ directory \in ResolverDirs
  /\ target \in NamePool
  /\ found = [done |-> FALSE, index |-> 0]
  /\ env_cache = NoEntry
  /\ growth_cache = NoEntry
  /\ pc = "idle"
  /\ renders = 0
  /\ env_data = Unset
  /\ growth_data = Unset
  /\ page = <<>>
  /\ tables = NoTables
  /\ io = NoIo
  /\ calls = NoCalls
  /\ fs_changes = 0

Resolve ==
  /\ ~found.done
  /\ found' = [done |-> TRUE, index |-> find_file_by_name(directory, target)]
  /\ UNCHANGED <<directory, target>>
  /\ UNCHANGED procvars

NextResolver == Resolve

SpecResolver == InitResolver /\ [][NextResolver]_vars

\* two names are the same text when their NFC forms or their NFD forms agree
Equivalent(a, b) == NFC(a) = NFC(b) \/ NFD(a) = NFD(b)

Matches(i) == directory[i].is_file /\ Equivalent(directory[i].name, target)

\* C1: find_file_by_name returns the first regular file of the directory whose
\* name equals the target under NFC or NFD, and None exactly when there is none;
\* a subdirectory is never returned.
C1_ResolverFindsFirstEquivalentFile ==
  found.done =>
    /\ (found.index = 0) <=> (\A i \in 1..Len(directory) : ~Matches(i))
    /\ found.index # 0 =>
         /\ found.index \in 1..Len(directory)
         /\ Matches(found.index)
         /\ \A j \in 1..(found.index - 1) : ~Matches(j)

\* a file stored under another form than the one asked for is found, behind a
\* subdirectory of an equivalent name that was passed over
C1_Witness ==
  /\ found.done
  /\ found.index = 2
  /\ directory[2].name # target
  /\ ~directory[1].is_file
  /\ Equivalent(directory[1].name, target)
  /\ NFC(target) # NFD(target)

(***************************************************************************)
(* The process: the script is run again on every interaction, the caches   *)
(* live as long as the process, files may be added to DATA_DIR meanwhile   *)
(***************************************************************************)
MaxRenders == 2
MaxMissing == 1
MaxFsChanges == 1

Entry(name, is_file, csv, sheets) ==
  [name |-> name, is_file |-> is_file, csv |-> csv, sheets |-> sheets]

\* a name as a filesystem stores it
Stored(form, name) == IF form = "NFD" THEN NFD(name) ELSE NFC(name)

SampleCsv ==
  << [time |-> 1, ph |-> 10, ec |-> 9, temperature |-> 20],
     [time |-> 2, ph |-> 12, ec |-> 10, temperature |-> 21],
     [time |-> 3, ph |-> 9, ec |-> 12, temperature |-> 22] >>

\* "기타고", a sheet name that is no key of EC_MAP
Gita == <<44592, 53440, 44256>>

Sheet(name, rows) == [sheet |-> name, rows |-> rows]

SampleRows == << [top |-> 10, root |-> 20], [top |-> 15, root |-> 25] >>

SampleWorkbooks ==
  { << Sheet(Songdo, SampleRows), Sheet(Haneul, SampleRows) >>,
    << Sheet(Haneul, SampleRows), Sheet(Gita, SampleRows) >> }

\* "생육결과.xlsx", and a folder "a.xlsx"
WorkbookName == <<49373, 50977, 44208, 44284>> \o XlsxSuffix
FolderName == <<97>> \o XlsxSuffix

WorkbookFile(form, sheets) == Entry(Stored(form, WorkbookName), TRUE, <<>>, sheets)
WorkbookFolder == Entry(FolderName, FALSE, <<>>, <<>>)

XlsxLayouts == {"none", "file", "folder", "folder_file", "file_folder"}

XlsxEntries(layout, form, sheets) ==
  CASE layout = "none" -> <<>>
    [] layout = "file" -> <<WorkbookFile(form, sheets)>>
    [] layout = "folder" -> <<WorkbookFolder>>
    [] layout = "folder_file" -> <<WorkbookFolder, WorkbookFile(form, sheets)>>
    [] layout = "file_folder" -> <<WorkbookFile(form, sheets), WorkbookFolder>>

\* the environment files from the k-th school on; a school of miss has no
\* file, and with asFolder a folder bears its file's name
RECURSIVE EnvEntries(_, _, _, _)
EnvEntries(form, miss, asFolder, k) ==
  IF k > Len(EC_MAP) THEN <<>>
  ELSE LET school == EC_MAP[k].school
           name == Stored(form, EnvFileName(school))
           here == IF school \notin miss THEN <<Entry(name, TRUE, SampleCsv, <<>>)>>
                   ELSE IF asFolder THEN <<Entry(name, FALSE, <<>>, <<>>)>>
                   ELSE <<>>
       IN here \o EnvEntries(form, miss, asFolder, k + 1)

Init ==
  /\ \E form \in {"NFC", "NFD"}, miss \in SUBSET Schools, asFolder \in BOOLEAN,
        layout \in XlsxLayouts, sheets \in SampleWorkbooks :
       /\ Cardinality(miss) <= MaxMissing
       /\ asFolder => miss # {}
       /\ directory = EnvEntries(form, miss, asFolder, 1)
                        \o XlsxEntries(layout, form, sheets)
  /\ env_cache = NoEntry
  /\ growth_cache = NoEntry
  /\ pc = "idle"
  /\ renders = 0
  /\ env_data = Unset
  /\ growth_data = Unset
  /\ page = <<>>
  /\ tables = NoTables
  /\ io = NoIo
  /\ calls = NoCalls
  /\ fs_changes = 0
  /\ target = <<>>
  /\ found = [done |-> FALSE, index |-> 0]

\* lines 14-29: a run starts
Rerun ==
  /\ pc \in {"idle", "done", "stopped", "raised"}
  /\ renders < MaxRenders
  /\ renders' = renders + 1
  /\ pc' = "load_env"
  /\ env_data' = Unset
  /\ growth_data' = Unset
  /\ page' = <<Elem("page_config", <<>>), Elem("style", <<>>)>>
  /\ tables' = NoTables
  /\ UNCHANGED <<directory, env_cache, growth_cache, io, calls, fs_changes, target, found>>

\* line 100: env_data = load_environment_data()
LoadEnvironment ==
  /\ pc = "load_env"
  /\ LET r == cache_data(env_cache, load_environment_data(directory))
     IN /\ env_cache' = r.cache
        /\ env_data' = r.out.value
        /\ page' = page \o r.out.messages
        /\ io' = [io EXCEPT !.env_scans = @ + r.out.scans, !.env_reads = @ + r.out.reads]
        /\ calls' = [calls EXCEPT !.env = @ + 1,
                                  !.first_env = IF calls.env = 0 THEN r.out.value ELSE @]
  /\ pc' = "load_growth"
  /\ UNCHANGED <<directory, growth_cache, renders, growth_data, tables, fs_changes,
                 target, found>>

\* line 101: growth_data = load_growth_data(); an exception ends the run
LoadGrowth ==
  /\ pc = "load_growth"
  /\ LET r == cache_data(growth_cache, load_growth_data(directory))
     IN /\ growth_cache' = r.cache
        /\ growth_data' = r.out.value
        /\ page' = page \o r.out.messages
                     \o (IF r.out.raised THEN <<Elem("exception", <<>>)>> ELSE <<>>)
        /\ io' = [io EXCEPT !.growth_scans = @ + r.out.scans,
                            !.growth_reads = @ + r.out.reads]
        /\ calls' = [calls EXCEPT !.growth = @ + 1,
                                  !.first_growth = IF calls.growth = 0 THEN r.out.value ELSE @]
        /\ pc' = IF r.out.raised THEN "raised" ELSE "check"
  /\ UNCHANGED <<directory, env_cache, renders, env_data, tables, fs_changes,
                 target, found>>

\* the condition of line 103 with "and" for "or"
should_stop_both(env, growth) == env.isNone /\ growth.isNone

\* the condition of line 103 without its second half
should_stop_env_only(env, growth) == env.isNone

\* line 103
should_stop(env, growth) == env.isNone \/ growth.isNone

\* lines 103-104: st.stop()
Check ==
  /\ pc = "check"
  /\ pc' = IF should_stop(env_data, growth_data) THEN "stopped" ELSE "render"
  /\ UNCHANGED <<directory, env_cache, growth_cache, renders, env_data, growth_data,
                 page, tables, io, calls, fs_changes, target, found>>

\* lines 109-242, with the school the user has selected
Render ==
  /\ pc = "render"
  /\ \E school_option \in SchoolOptions :
       /\ tables' = BuildTables(env_data, growth_data, school_option)
       /\ page' = page \o Dashboard(school_option)
  /\ pc' = "done"
  /\ UNCHANGED <<directory, env_cache, growth_cache, renders, env_data, growth_data,
                 io, calls, fs_changes, target, found>>

\* somebody puts a missing environment file into DATA_DIR
AddEnvFile ==
  /\ fs_changes < MaxFsChanges
  /\ \E school \in Schools :
       /\ find_file_by_name(directory, EnvFileName(school)) = 0
       /\ directory' = Append(directory,
                              Entry(EnvFileName(school), TRUE, SampleCsv, <<>>))
  /\ fs_changes' = fs_changes + 1
  /\ UNCHANGED <<env_cache, growth_cache, pc, renders, env_data, growth_data,
                 page, tables, io, calls, target, found>>

\* somebody puts a workbook into a DATA_DIR that holds none
AddWorkbook ==
  /\ fs_changes < MaxFsChanges
  /\ find_xlsx_files_only(directory) = 0
  /\ \E sheets \in SampleWorkbooks :
       directory' = Append(directory, WorkbookFile("NFC", sheets))
  /\ fs_changes' = fs_changes + 1
  /\ UNCHANGED <<env_cache, growth_cache, pc, renders, env_data, growth_data,
                 page, tables, io, calls, target, found>>

Next ==
  \/ Rerun
  \/ LoadEnvironment
  \/ LoadGrowth
  \/ Check
  \/ Render
  \/ AddEnvFile
  \/ AddWorkbook

Spec == Init /\ [][Next]_vars

(***************************************************************************)
(* Properties of the process                                               *)
(***************************************************************************)
Count(p, kind) == Len(SelectSeq(p, LAMBDA e : e.kind = kind))

DashboardKinds ==
  {"title", "selectbox", "chart_ec_ph", "chart_photoperiod", "chart_growth", "download"}

NothingRendered ==
  /\ ~tables.built
  /\ \A i \in 1..Len(page) : page[i].kind \notin DashboardKinds

\* the configured schools without a regular file of an equivalent name
MissingSchools(dir) ==
  {s \in Schools :
     \A i \in 1..Len(dir) :
       ~(dir[i].is_file /\ NFD(dir[i].name) = NFD(EnvFileName(s)))}

\* no regular file of the directory bears the workbook suffix
NoSpreadsheetFile(dir) ==
  \A i \in 1..Len(dir) : ~(dir[i].is_file /\ Suffix(dir[i].name) = XlsxSuffix)

EnvReturns == pc = "load_env" /\ pc' = "load_growth"
GrowthEnds == pc = "load_growth" /\ pc' # "load_growth"

\* C2: when a configured school has no resolvable environment file,
\* load_environment_data returns None and no table, and reports one error; the
\* call that scanned the directory names a school whose file is missing.
C2_MissingFileFailsWhole ==
  [][(EnvReturns /\ MissingSchools(directory) # {}) =>
       /\ env_data' = None
       /\ env_cache'.value = None
       /\ \E s \in Schools :
            /\ page' = Append(page, Elem("error_env", s))
            /\ ~env_cache.stored => s \in MissingSchools(directory)]_vars

\* the third school's file is missing: two tables were read, none is returned
C2_Witness ==
  /\ pc = "load_growth"
  /\ env_data = None
  /\ io.env_reads = 2
  /\ Count(page, "error_env") = 1
  /\ Ara \in MissingSchools(directory)

\* C3: with no spreadsheet file in the directory, load_growth_data reports the
\* missing workbook, returns None and opens no directory entry as a workbook.
C3_NoWorkbookFailsCleanly ==
  [][(GrowthEnds /\ NoSpreadsheetFile(directory)) =>
       /\ growth_data' = None
       /\ pc' = "check"
       /\ Count(page', "error_growth") = 1
       /\ io'.growth_reads = io.growth_reads]_vars

\* C4: the second and every later invocation of either loader returns what the
\* first returned and adds no directory scan and no file read.
C4_LaterInvocationsRepeatFirst ==
  [][/\ calls.env >= 1 =>
          /\ io'.env_scans = io.env_scans /\ io'.env_reads = io.env_reads
          /\ calls'.env > calls.env => env_data' = calls.first_env
     /\ calls.growth >= 1 =>
          /\ io'.growth_scans = io.growth_scans /\ io'.growth_reads = io.growth_reads
          /\ calls'.growth > calls.growth => growth_data' = calls.first_growth]_vars

\* C5: in a run where a loader returned None nothing of the dashboard is
\* rendered and no table is built.
C5_NoPartialDashboard ==
  (env_data.isNone \/ growth_data.isNone) =>
    /\ NothingRendered
    /\ pc \notin {"render", "done"}

\* the environment files are missing, the workbook was read, the run stopped
C5_Witness ==
  /\ pc = "stopped"
  /\ env_data.isNone
  /\ growth_data.set /\ ~growth_data.isNone
  /\ NothingRendered

\* C6 as stated: once load_environment_data has returned None, the run neither
\* invokes load_growth_data nor reports a second missing-input error.
C6_HaltsAtDetection ==
  env_data.isNone =>
    /\ pc = "load_growth"
    /\ ~growth_data.set
    /\ Count(page, "error_env") + Count(page, "error_growth") <= 1

\* C6 amended: the run is stopped by the check that follows both loader calls:
\* load_growth_data is invoked also after load_environment_data returned None,
\* each loader reports at most one missing-input error, and nothing of the
\* dashboard is rendered once either has returned None.
C6_HaltsAfterBothLoads ==
  /\ pc = "stopped" => env_data.set /\ growth_data.set
  /\ Count(page, "error_env") <= 1
  /\ Count(page, "error_growth") <= 1
  /\ (env_data.isNone \/ growth_data.isNone) =>
       /\ pc \in {"load_growth", "check", "stopped", "raised"}
       /\ NothingRendered

\* both inputs are missing: both errors are on the page of the stopped run
C6_Witness ==
  /\ pc = "stopped"
  /\ env_data.isNone
  /\ growth_data.isNone
  /\ Count(page, "error_env") = 1
  /\ Count(page, "error_growth") = 1

\* C10: once a loader has returned None, every later invocation returns None
\* without a directory scan or a file read, whatever was added to the
\* directory since, and no later run gets past the check.
C10_FailureIsMemoized ==
  [][/\ calls.first_env.isNone =>
          /\ calls'.env > calls.env =>
               /\ env_data' = None
               /\ io'.env_scans = io.env_scans /\ io'.env_reads = io.env_reads
          /\ pc' \notin {"render", "done"}
     /\ calls.first_growth.isNone =>
          /\ calls'.growth > calls.growth =>
               /\ growth_data' = None
               /\ io'.growth_scans = io.growth_scans
               /\ io'.growth_reads = io.growth_reads
          /\ pc' \notin {"render", "done"}]_vars

\* the missing environment file was added after the first run, the directory
\* is complete, and the second run is stopped all the same
C10_Witness ==
  /\ renders = 2
  /\ calls.env = 2
  /\ fs_changes = 1
  /\ MissingSchools(directory) = {}
  /\ ~NoSpreadsheetFile(directory)
  /\ growth_data.set /\ ~growth_data.isNone
  /\ env_data.isNone
  /\ pc = "stopped"

(***************************************************************************)
(* The tables on their own: complete data directories whose files hold     *)
(* every choice of contents, run through the script                        *)
(***************************************************************************)
MaxSheets == 2

EnvCsvPool ==
  { <<>>,
    << [time |-> 1, ph |-> 10, ec |-> 12, temperature |-> 20] >>,
    << [time |-> 1, ph |-> 12, ec |-> 10, temperature |-> 20],
       [time |-> 2, ph |-> 9, ec |-> 10, temperature |-> 21] >>,
    SampleCsv }

EnvFiles(csvs) ==
  [k \in 1..Len(EC_MAP) |-> Entry(EnvFileName(EC_MAP[k].school), TRUE, csvs[k], <<>>)]

\* the sheet names tried: three keys of EC_MAP, a name that is no key, and a
\* key typed in decomposed form
SheetPool == {Songdo, Haneul, Ara, Gita, NFD(Haneul)}

GrowthRowsPool ==
  { <<>>,
    << [top |-> 10, root |-> 20] >>,
    << [top |-> 5, root |-> 15], [top |-> 10, root |-> 30] >> }

\* the workbooks of at most MaxSheets sheets, no two sheets of one name
Workbooks ==
  UNION { { w \in [1..n -> [sheet : SheetPool, rows : GrowthRowsPool]] :
              \A a, b \in 1..n : a # b => w[a].sheet # w[b].sheet } :
          n \in 1..MaxSheets }

InitProcess ==
  /\ env_cache = NoEntry
  /\ growth_cache = NoEntry
  /\ pc = "idle"
  /\ renders = 0
  /\ env_data = Unset
  /\ growth_data = Unset
  /\ page = <<>>
  /\ tables = NoTables
  /\ io = NoIo
  /\ calls = NoCalls
  /\ fs_changes = 0
  /\ target = <<>>
  /\ found = [done |-> FALSE, index |-> 0]

InitEnvTables ==
  /\ \E csvs \in [1..Len(EC_MAP) -> EnvCsvPool] :
       directory = EnvFiles(csvs)
                     \o <<WorkbookFile("NFC", <<Sheet(Haneul, SampleRows)>>)>>
  /\ InitProcess

InitGrowthTables ==
  /\ \E w \in Workbooks :
       directory = EnvFiles([k \in 1..Len(EC_MAP) |-> SampleCsv])
                     \o <<WorkbookFile("NFC", w)>>
  /\ InitProcess

NextTables ==
  \/ Rerun
  \/ LoadEnvironment
  \/ LoadGrowth
  \/ Check
  \/ Render

SpecEnvTables == InitEnvTables /\ [][NextTables]_vars

SpecGrowthTables == InitGrowthTables /\ [][NextTables]_vars

(***************************************************************************)
(* Properties of the tables                                                *)
(***************************************************************************)
\* the rows before row i that belong to the school of row i
Earlier(rows, i) == {j \in 1..(i - 1) : rows[j].school = rows[i].school}

Latest(S) == CHOOSE j \in S : \A o \in S : o <= j

\* the relative change (current - previous) / previous expected at row i
ExpectedChange(rows, i, Col(_)) ==
  IF Earlier(rows, i) = {} THEN NullFrac
  ELSE LET j == Latest(Earlier(rows, i))
       IN Frac(Col(rows[i]) - Col(rows[j]), Col(rows[j]))

PhOf(r) == r.ph
EcOf(r) == r.ec

\* the ph samples of one school, in table order
PhSamples(rows, school) ==
  LET own == SelectSeq(rows, LAMBDA r : r.school = school)
  IN [j \in 1..Len(own) |-> own[j].ph]

PhChanges(rows, school) ==
  LET own == SelectSeq(rows, LAMBDA r : r.school = school)
  IN [j \in 1..Len(own) |-> own[j].ph_change]

\* C7: in the derived environment table the relative change of ph and of ec is
\* missing at a school's first row and is (current - previous) / previous at
\* every later row, previous being the row before it of the same school;
\* samples 10, 12, 9 give missing, 0.2, -0.25.
C7_RelativeChangePerSchool ==
  tables.built =>
    LET rows == tables.env_all
    IN /\ \A i \in 1..Len(rows) :
            /\ SameNumber(rows[i].ph_change, ExpectedChange(rows, i, PhOf))
            /\ SameNumber(rows[i].ec_change, ExpectedChange(rows, i, EcOf))
       /\ \A s \in Schools :
            PhSamples(rows, s) = <<10, 12, 9>> =>
              LET c == PhChanges(rows, s)
              IN /\ c[1].null
                 /\ SameNumber(c[2], Frac(1, 5))
                 /\ SameNumber(c[3], Frac(-1, 4))

\* all schools shown: a school with the samples 10, 12, 9 follows a school
\* that has rows of its own
C7_Witness ==
  /\ tables.built
  /\ PhSamples(tables.env_all, Haneul) = <<10, 12, 9>>
  /\ Len(PhSamples(tables.env_all, Songdo)) = 2
  /\ \E i \in 2..Len(tables.env_all) :
       /\ tables.env_all[i].school = Haneul
       /\ tables.env_all[i - 1].school = Songdo
       /\ tables.env_all[i].ph_change.null

RECURSIVE SumLengths(_)
SumLengths(rows) ==
  IF rows = <<>> THEN 0 ELSE Head(rows).top + Head(rows).root + SumLengths(Tail(rows))

\* C8: the summary holds, for every school with a record in the filtered
\* growth table, exactly one row, with the school's concentration and the
\* mean of (above-ground + below-ground) / 2 over its records, and no other row.
C8_SummaryRowPerSchool ==
  tables.built =>
    LET rows == tables.growth_all
        present == {rows[i].school : i \in 1..Len(rows)}
    IN /\ \A s \in present :
            LET own == SelectSeq(rows, LAMBDA r : r.school = s)
                hits == {k \in 1..Len(tables.summary) : tables.summary[k].school = s}
            IN /\ Cardinality(hits) = 1
               /\ \A k \in hits :
                    /\ tables.summary[k].EC = own[1].EC
                    /\ SameNumber(tables.summary[k].rate,
                                  Frac(SumLengths(own), 2 * Len(own)))
       /\ \A k \in 1..Len(tables.summary) : tables.summary[k].school \in present

\* the first entry with the workbook suffix is a regular file
WorkbookFound(dir) ==
  \E i \in 1..Len(dir) :
    /\ Suffix(dir[i].name) = XlsxSuffix
    /\ dir[i].is_file
    /\ \A j \in 1..(i - 1) : Suffix(dir[j].name) # XlsxSuffix

TheWorkbook(dir) ==
  dir[CHOOSE i \in 1..Len(dir) : Suffix(dir[i].name) = XlsxSuffix /\ dir[i].is_file].sheets

\* C9: when a workbook is found load_growth_data does not fail: it returns a
\* mapping keyed by the sheet names, each row of sheet s tagged with school s
\* and with EC_MAP[s], or with a missing value when s is no key of EC_MAP.
C9_EverySheetIsLoaded ==
  (WorkbookFound(directory) /\ pc \in {"check", "render", "done", "stopped", "raised"}) =>
    LET w == TheWorkbook(directory)
        d == growth_data.data
    IN /\ pc # "raised"
       /\ growth_data.set /\ ~growth_data.isNone
       /\ Len(d) = Len(w)
       /\ \A k \in 1..Len(w) :
            /\ d[k].key = w[k].sheet
            /\ Len(d[k].df) = Len(w[k].rows)
            /\ \A i \in 1..Len(d[k].df) :
                 LET r == d[k].df[i]
                 IN /\ r.top = w[k].rows[i].top
                    /\ r.root = w[k].rows[i].root
                    /\ r.school = w[k].sheet
                    /\ \/ \E m \in 1..Len(EC_MAP) :
                            EC_MAP[m].school = w[k].sheet /\ r.EC = EcValue(EC_MAP[m].ec)
                       \/ w[k].sheet \notin Schools /\ r.EC.isNull

\* a workbook with a sheet of a configured school and a sheet of another name,
\* both with rows
C9_Witness ==
  /\ pc = "check"
  /\ Len(growth_data.data) = 2
  /\ growth_data.data[1].key = Gita
  /\ Len(growth_data.data[1].df) = 2
  /\ growth_data.data[1].df[1].EC.isNull
  /\ growth_data.data[2].key = Haneul
  /\ Len(growth_data.data[2].df) = 1
  /\ growth_data.data[2].df[1].EC = EcValue(2)

====
